---- MODULE Spec2Model ----
(***************************************************************************)
(* Model of src/src/dealformater/data.py: the classes Constants,           *)
(* SuitHolding and Hand.                                                   *)
(*                                                                         *)
(* A Python str is modelled as a sequence of one-character strings, so     *)
(* that upper(), replace(), index(), `in` and join() are computed          *)
(* character by character as CPython computes them.  The literals of     *)
(* several characters that no operation of the program looks inside (the   *)
(* HTML pictographs, "&nbsp;" and the fixed text of the two reprs) are     *)
(* single elements of such a sequence.                                     *)
(*                                                                         *)
(* Each behaviour is the life of one object: it is constructed from the    *)
(* initial state (the constructor may raise, and then no object exists)    *)
(* and afterwards only queried.                                            *)
(***************************************************************************)
EXTENDS Integers, Sequences, FiniteSets, TLC

VARIABLES holding, copy, hand, last

vars == <<holding, copy, hand, last>>

(***************************************************************************)
(* Bounds of the explored inputs.                                          *)
(***************************************************************************)
MaxSuitLen == 2
MaxCardLen == 3
MaxHandLen == 1
MaxSpecLen == 2

\* every string over chars of length at most n
Strs(chars, n) == UNION {[1..k -> chars] : k \in 0..n}

SuitChars == {"s", "H", "d", "C", "Z"}
CardChars == {"a", "T", "2", "x", "X", "Z"}
HandChars == {"t", "Z"}
SpecChars == {"h", "H"}

FullSuit == <<"A", "K", "Q", "J", "T", "9", "8", "7", "6", "5", "4", "3", "2">>

SuitInputs == Strs(SuitChars, MaxSuitLen)
CardInputs == Strs(CardChars, MaxCardLen)
HandInputs == Strs(HandChars, MaxHandLen) \cup {FullSuit}
SpecInputs == Strs(SpecChars, MaxSpecLen) \cup {<<"p">>}

(***************************************************************************)
(* Python str primitives.                                                  *)
(***************************************************************************)
LowerLetters == <<"a", "b", "c", "d", "e", "f", "g", "h", "i", "j", "k", "l", "m",
                  "n", "o", "p", "q", "r", "s", "t", "u", "v", "w", "x", "y", "z">>
UpperLetters == <<"A", "B", "C", "D", "E", "F", "G", "H", "I", "J", "K", "L", "M",
                  "N", "O", "P", "Q", "R", "S", "T", "U", "V", "W", "X", "Y", "Z">>

\* str.upper() on one character
upper_char(c) ==
    IF \E i \in 1..Len(LowerLetters) : LowerLetters[i] = c
    THEN UpperLetters[CHOOSE i \in 1..Len(LowerLetters) : LowerLetters[i] = c]
    ELSE c

\* str.upper()
upper(s) == [i \in 1..Len(s) |-> upper_char(s[i])]

\* s.replace(old, new) for a one-character old
RECURSIVE replace(_, _, _)
replace(s, old, new) ==
    IF s = <<>> THEN <<>>
    ELSE (IF Head(s) = old THEN new ELSE <<Head(s)>>) \o replace(Tail(s), old, new)

\* s.find(sub): the lowest 0-based offset at which sub occurs in s, or -1
find(s, sub) ==
    LET hits == {i \in 0..(Len(s) - Len(sub)) :
                    \A j \in 1..Len(sub) : s[i + j] = sub[j]}
    IN  IF hits = {} THEN -1
        ELSE CHOOSE i \in hits : \A k \in hits : i <= k

\* sub in s
contains(s, sub) == find(s, sub) >= 0

\* sep.join(parts), parts a sequence of strings
RECURSIVE join(_, _)
join(sep, parts) ==
    IF parts = <<>> THEN <<>>
    ELSE IF Len(parts) = 1 THEN parts[1]
    ELSE parts[1] \o sep \o join(sep, Tail(parts))

\* the items iterating over a str yields
chars_of(s) == [i \in 1..Len(s) |-> <<s[i]>>]

(***************************************************************************)
(* class Constants                                                         *)
(***************************************************************************)
HONORS == <<"A", "K", "Q", "J", "T">>
SUITS == <<"S", "H", "D", "C">>

(***************************************************************************)
(* class SuitHolding                                                       *)
(***************************************************************************)
SUIT_PIPS == <<"\\u2660", "\\u2661", "\\u2662", "\\u2663">>
SUIT_PIPS_HTML == <<"&#9824;",
                    "<span style=\"color: rgb(192, 22, 22);\">&#9829;</span>",
                    "<span style=\"color: rgb(192, 22, 22);\">&#9830;</span>",
                    "&#9827;">>

None == [none |-> TRUE]

\* _validate_suit with the membership test left out
validate_suit_unchecked(suit) == [status |-> "ok", val |-> upper(suit)]

\* _validate_suit: ValueError('Suit must be one of ...') is "InvalidSuit"
validate_suit(suit) ==
    LET u == upper(suit)
    IN  IF ~contains(SUITS, u)
        THEN [status |-> "InvalidSuit", val |-> <<>>]
        ELSE [status |-> "ok", val |-> u]

valid_cards == HONORS \o <<"9", "8", "7", "6", "5", "4", "3", "2", "x">>

\* the for loop of _validate_cards with the test for an equal rank left out
RECURSIVE scan_cards_weak(_, _, _)
scan_cards_weak(cards, i, last_index) ==
    IF i > Len(cards) THEN 0
    ELSE LET current_index == find(valid_cards, <<cards[i]>>)
         IN  IF current_index = -1 THEN i
             ELSE IF current_index < last_index THEN i
                  ELSE scan_cards_weak(cards, i + 1, current_index)

\* the for loop of _validate_cards from the i-th character on; 0 when the
\* loop runs to its end, otherwise the 1-based position at which it raises
RECURSIVE scan_cards(_, _, _)
scan_cards(cards, i, last_index) ==
    IF i > Len(cards) THEN 0
    ELSE LET current_index == find(valid_cards, <<cards[i]>>)
         IN  IF current_index = -1 THEN i
             ELSE IF current_index < last_index
                     \/ (current_index = last_index /\ cards[i] # "x")
                  THEN i
                  ELSE scan_cards(cards, i + 1, current_index)

\* _validate_cards without the call of upper()
validate_cards_noupper(cards) ==
    LET c == replace(cards, "X", <<"x">>)
        at == scan_cards(c, 1, -1)
    IN  IF at # 0
        THEN [status |-> "InvalidCards", val |-> <<>>, at |-> at]
        ELSE [status |-> "ok", val |-> c, at |-> 0]

\* _validate_cards returning the cards with the ten already written out
validate_cards_tens(cards) ==
    LET c == replace(upper(cards), "X", <<"x">>)
        at == scan_cards(c, 1, -1)
    IN  IF at # 0
        THEN [status |-> "InvalidCards", val |-> <<>>, at |-> at]
        ELSE [status |-> "ok", val |-> replace(c, "T", <<"1", "0">>), at |-> 0]

\* _validate_cards: ValueError('Cards must consist of ...') is "InvalidCards"
validate_cards(cards) ==
    LET c == replace(upper(cards), "X", <<"x">>)
        at == scan_cards(c, 1, -1)
    IN  IF at # 0
        THEN [status |-> "InvalidCards", val |-> <<>>, at |-> at]
        ELSE [status |-> "ok", val |-> c, at |-> 0]

\* SuitHolding.__init__
SuitHolding_init(suit, cards) ==
    LET vs == validate_suit(suit)
    IN  IF vs.status # "ok"
        THEN [status |-> vs.status, obj |-> None, at |-> 0]
        ELSE LET vc == validate_cards(cards)
             IN  IF vc.status # "ok"
                 THEN [status |-> vc.status, obj |-> None, at |-> vc.at]
                 ELSE [status |-> "ok",
                       obj |-> [suit |-> vs.val, cards |-> vc.val],
                       at |-> 0]

\* Constants.SUITS.index(self.suit) and the subscript of a pictograph table:
\* str.index raises ValueError when the suit does not occur, the subscript
\* raises IndexError past the end of the table
pip_lookup(table, self) ==
    LET idx == find(SUITS, self.suit)
    IN  IF idx = -1 THEN [status |-> "ValueError", ret |-> <<>>]
        ELSE IF idx >= Len(table) THEN [status |-> "IndexError", ret |-> <<>>]
        ELSE [status |-> "ok", ret |-> <<table[idx + 1]>>]

\* SuitHolding._suit_pip
suit_pip(self) == pip_lookup(SUIT_PIPS, self)

\* SuitHolding._suit_pip_html
suit_pip_html(self) == pip_lookup(SUIT_PIPS_HTML, self)

\* SuitHolding.suit
SuitHolding_suit(self) == [status |-> "ok", ret |-> self.suit]

\* SuitHolding.cards
SuitHolding_cards(self) == [status |-> "ok", ret |-> self.cards]

\* SuitHolding.__repr__
SuitHolding_repr(self) ==
    [status |-> "ok",
     ret |-> <<"SuitHolding(suit='">> \o self.suit \o <<"', cards='">>
             \o self.cards \o <<"')">>]

\* a or b on strings: the empty string is false
py_or(a, b) == IF a = <<>> THEN b ELSE a

\* SuitHolding.__format__ without the `or '--'`
SuitHolding_format_nodash(self, format_spec) ==
    LET pip == IF format_spec # <<>> /\ contains(<<"h", "H">>, format_spec)
               THEN suit_pip_html(self)
               ELSE suit_pip(self)
    IN  IF pip.status # "ok" THEN pip
        ELSE [status |-> "ok",
              ret |-> pip.ret \o <<" ">>
                      \o replace(join(<<" ">>, chars_of(self.cards)),
                                 "T", <<"1", "0">>)]

\* SuitHolding.__format__
SuitHolding_format(self, format_spec) ==
    LET pip == IF format_spec # <<>> /\ contains(<<"h", "H">>, format_spec)
               THEN suit_pip_html(self)
               ELSE suit_pip(self)
    IN  IF pip.status # "ok" THEN pip
        ELSE [status |-> "ok",
              ret |-> pip.ret \o <<" ">>
                      \o py_or(replace(join(<<" ">>, chars_of(self.cards)),
                                       "T", <<"1", "0">>),
                               <<"-", "-">>)]

\* SuitHolding.__str__
SuitHolding_str(self) == SuitHolding_format(self, <<>>)

(***************************************************************************)
(* class Hand                                                              *)
(***************************************************************************)
\* Hand.__init__ with hearts and diamonds taken from each other's argument
Hand_init_swapped(spades, hearts, diamonds, clubs) ==
    LET r1 == SuitHolding_init(<<SUITS[1]>>, spades)
        r2 == SuitHolding_init(<<SUITS[2]>>, diamonds)
        r3 == SuitHolding_init(<<SUITS[3]>>, hearts)
        r4 == SuitHolding_init(<<SUITS[4]>>, clubs)
    IN  IF r1.status # "ok" THEN [status |-> r1.status, obj |-> None, at |-> 1]
        ELSE IF r2.status # "ok" THEN [status |-> r2.status, obj |-> None, at |-> 2]
        ELSE IF r3.status # "ok" THEN [status |-> r3.status, obj |-> None, at |-> 3]
        ELSE IF r4.status # "ok" THEN [status |-> r4.status, obj |-> None, at |-> 4]
        ELSE [status |-> "ok",
              obj |-> [spades |-> r1.obj, hearts |-> r2.obj,
                       diamonds |-> r3.obj, clubs |-> r4.obj],
              at |-> 0]

\* Hand.__init__: the four holdings are built one after the other, the first
\* constructor that raises ends it; at is the number of the statement that raised
Hand_init(spades, hearts, diamonds, clubs) ==
    LET r1 == SuitHolding_init(<<SUITS[1]>>, spades)
        r2 == SuitHolding_init(<<SUITS[2]>>, hearts)
        r3 == SuitHolding_init(<<SUITS[3]>>, diamonds)
        r4 == SuitHolding_init(<<SUITS[4]>>, clubs)
    IN  IF r1.status # "ok" THEN [status |-> r1.status, obj |-> None, at |-> 1]
        ELSE IF r2.status # "ok" THEN [status |-> r2.status, obj |-> None, at |-> 2]
        ELSE IF r3.status # "ok" THEN [status |-> r3.status, obj |-> None, at |-> 3]
        ELSE IF r4.status # "ok" THEN [status |-> r4.status, obj |-> None, at |-> 4]
        ELSE [status |-> "ok",
              obj |-> [spades |-> r1.obj, hearts |-> r2.obj,
                       diamonds |-> r3.obj, clubs |-> r4.obj],
              at |-> 0]

\* Hand.spades
Hand_spades(self) == [status |-> "ok", ret |-> self.spades.cards]

\* Hand.hearts
Hand_hearts(self) == [status |-> "ok", ret |-> self.hearts.cards]

\* Hand.diamonds
Hand_diamonds(self) == [status |-> "ok", ret |-> self.diamonds.cards]

\* Hand.clubs
Hand_clubs(self) == [status |-> "ok", ret |-> self.clubs.cards]

\* Hand._suits
Hand_suits(self) == <<self.spades, self.hearts, self.diamonds, self.clubs>>

\* Hand.__repr__
Hand_repr(self) ==
    [status |-> "ok",
     ret |-> <<"Hand(spades='">> \o Hand_spades(self).ret
             \o <<"', hearts='">> \o Hand_hearts(self).ret
             \o <<"', diamonds='">> \o Hand_diamonds(self).ret
             \o <<"', clubs='">> \o Hand_clubs(self).ret \o <<"')">>]

\* Hand.__format__
Hand_format(self, format_spec) ==
    LET joiner == IF format_spec # <<>> /\ contains(<<"H", "h">>, format_spec)
                  THEN <<"&nbsp;", "&nbsp;">>
                  ELSE <<" ", " ">>
        parts == [i \in 1..4 |-> SuitHolding_format(Hand_suits(self)[i], format_spec)]
    IN  IF \E i \in 1..4 : parts[i].status # "ok"
        THEN parts[CHOOSE i \in 1..4 : /\ parts[i].status # "ok"
                                       /\ \A k \in 1..(i - 1) : parts[k].status = "ok"]
        ELSE [status |-> "ok",
              ret |-> join(joiner, [i \in 1..4 |-> parts[i].ret])]

\* Hand.__str__
Hand_str(self) == Hand_format(self, <<>>)

(***************************************************************************)
(* The state machine.  last records the latest call: its name, its         *)
(* arguments, whether it returned ("ok") or raised, and what it returned.  *)
(***************************************************************************)
Call(op, suit, args, spec, status, ret, at) ==
    [op |-> op, suit |-> suit, args |-> args, spec |-> spec,
     status |-> status, ret |-> ret, at |-> at]

Init ==
    /\ holding = None
    /\ copy = None
    /\ hand = None
    /\ last = Call("init", <<>>, <<>>, <<>>, "ok", <<>>, 0)

\* h = SuitHolding(suit, cards)
NewSuitHolding(suit, cards) ==
    /\ last.op = "init"
    /\ LET r == SuitHolding_init(suit, cards)
       IN  /\ holding' = r.obj
           /\ last' = Call("SuitHolding", suit, <<cards>>, <<>>, r.status, <<>>, r.at)
    /\ UNCHANGED <<copy, hand>>

\* SuitHolding(h.suit, h.cards)
Reconstruct ==
    /\ holding # None
    /\ copy = None
    /\ LET r == SuitHolding_init(SuitHolding_suit(holding).ret,
                                 SuitHolding_cards(holding).ret)
       IN  /\ copy' = r.obj
           /\ last' = Call("Reconstruct", holding.suit, <<holding.cards>>, <<>>,
                           r.status, <<>>, r.at)
    /\ UNCHANGED <<holding, hand>>

\* a call of a method that assigns no attribute
Query(op, spec, r) ==
    /\ last' = Call(op, <<>>, <<>>, spec, r.status, r.ret, 0)
    /\ UNCHANGED <<holding, copy, hand>>

\* h.suit
GetSuit == holding # None /\ Query("SuitHolding.suit", <<>>, SuitHolding_suit(holding))

\* h.cards
GetCards == holding # None /\ Query("SuitHolding.cards", <<>>, SuitHolding_cards(holding))

\* repr(h)
ReprSuitHolding ==
    holding # None /\ Query("SuitHolding.repr", <<>>, SuitHolding_repr(holding))

\* str(h)
StrSuitHolding ==
    holding # None /\ Query("SuitHolding.str", <<>>, SuitHolding_str(holding))

\* format(h, format_spec) keeping the rendered cards in the holding
FormatSuitHolding_caching(format_spec) ==
    /\ holding # None
    /\ LET r == SuitHolding_format(holding, format_spec)
       IN  last' = Call("SuitHolding.format", <<>>, <<>>, format_spec, r.status, r.ret, 0)
    /\ holding' = [holding EXCEPT !.cards = replace(holding.cards, "T", <<"1", "0">>)]
    /\ UNCHANGED <<copy, hand>>

\* format(h, format_spec)
FormatSuitHolding(format_spec) ==
    /\ holding # None
    /\ Query("SuitHolding.format", format_spec, SuitHolding_format(holding, format_spec))

\* Hand(spades, hearts, diamonds, clubs)
NewHand(spades, hearts, diamonds, clubs) ==
    /\ last.op = "init"
    /\ LET r == Hand_init(spades, hearts, diamonds, clubs)
       IN  /\ hand' = r.obj
           /\ last' = Call("Hand", <<>>, <<spades, hearts, diamonds, clubs>>, <<>>,
                           r.status, <<>>, r.at)
    /\ UNCHANGED <<holding, copy>>

\* hand.spades
GetSpades == hand # None /\ Query("Hand.spades", <<>>, Hand_spades(hand))

\* hand.hearts
GetHearts == hand # None /\ Query("Hand.hearts", <<>>, Hand_hearts(hand))

\* hand.diamonds
GetDiamonds == hand # None /\ Query("Hand.diamonds", <<>>, Hand_diamonds(hand))

\* hand.clubs
GetClubs == hand # None /\ Query("Hand.clubs", <<>>, Hand_clubs(hand))

\* repr(hand)
ReprHand == hand # None /\ Query("Hand.repr", <<>>, Hand_repr(hand))

\* str(hand)
StrHand == hand # None /\ Query("Hand.str", <<>>, Hand_str(hand))

\* format(hand, format_spec)
FormatHand(format_spec) ==
    /\ hand # None
    /\ Query("Hand.format", format_spec, Hand_format(hand, format_spec))

\* the calls a caller can make, with every argument of the explored inputs
AnyNewSuitHolding ==
    /\ last.op = "init"
    /\ \E suit \in SuitInputs, cards \in CardInputs : NewSuitHolding(suit, cards)

AnyFormatSuitHolding ==
    /\ holding # None
    /\ \E format_spec \in SpecInputs : FormatSuitHolding(format_spec)

AnyNewHand ==
    /\ last.op = "init"
    /\ \E spades \in HandInputs, hearts \in HandInputs,
          diamonds \in HandInputs, clubs \in HandInputs :
          NewHand(spades, hearts, diamonds, clubs)

AnyFormatHand ==
    /\ hand # None
    /\ \E format_spec \in SpecInputs : FormatHand(format_spec)

Next ==
    \/ AnyNewSuitHolding
    \/ Reconstruct
    \/ GetSuit
    \/ GetCards
    \/ ReprSuitHolding
    \/ StrSuitHolding
    \/ AnyFormatSuitHolding
    \/ AnyNewHand
    \/ GetSpades
    \/ GetHearts
    \/ GetDiamonds
    \/ GetClubs
    \/ ReprHand
    \/ StrHand
    \/ AnyFormatHand

Spec == Init /\ [][Next]_vars

(***************************************************************************)
(* The vocabulary of the specification, written down independently of the  *)
(* code above.                                                             *)
(***************************************************************************)
Range(f) == {f[i] : i \in DOMAIN f}

\* the rank alphabet, highest rank first, the placeholder last
RankAlphabet == <<"A", "K", "Q", "J", "T", "9", "8", "7", "6", "5", "4", "3", "2", "x">>

\* the canonical form of one card character
CanonChar(c) ==
    CASE c \in {"x", "X"} -> "x"
      [] c = "a" -> "A"
      [] c = "k" -> "K"
      [] c = "q" -> "Q"
      [] c = "j" -> "J"
      [] c = "t" -> "T"
      [] OTHER -> c

CaseNormalized(s) == [i \in 1..Len(s) |-> CanonChar(s[i])]

InAlphabet(c) == CanonChar(c) \in Range(RankAlphabet)

RankOf(c) == CHOOSE i \in 1..Len(RankAlphabet) : RankAlphabet[i] = CanonChar(c)

IsPlaceholder(c) == c \in {"x", "X"}

\* every character is a rank, each rank lower than the one before it, the
\* placeholder allowed to follow itself
Descending(s) ==
    /\ \A i \in 1..Len(s) : InAlphabet(s[i])
    /\ \A i \in 1..(Len(s) - 1) :
          \/ RankOf(s[i]) < RankOf(s[i + 1])
          \/ IsPlaceholder(s[i]) /\ IsPlaceholder(s[i + 1])

\* the i-th character is no rank, or is not lower than some earlier rank
\* (other than a placeholder after a placeholder)
Violates(s, i) ==
    \/ ~InAlphabet(s[i])
    \/ \E j \in 1..(i - 1) :
          /\ InAlphabet(s[j])
          /\ RankOf(s[j]) >= RankOf(s[i])
          /\ ~(IsPlaceholder(s[j]) /\ IsPlaceholder(s[i]))

IllFormed(s) == \E i \in 1..Len(s) : Violates(s, i)

FirstViolation(s) ==
    CHOOSE i \in 1..Len(s) : Violates(s, i) /\ \A k \in 1..(i - 1) : ~Violates(s, k)

CanonicalSuits == {<<"S">>, <<"H">>, <<"D">>, <<"C">>}

\* the uppercase form of a suit input
SuitUpper(s) ==
    [i \in 1..Len(s) |->
        CASE s[i] = "s" -> "S"
          [] s[i] = "h" -> "H"
          [] s[i] = "d" -> "D"
          [] s[i] = "c" -> "C"
          [] s[i] = "z" -> "Z"
          [] OTHER -> s[i]]

(***************************************************************************)
(* C1.  With a valid suit, a card string whose characters all belong to    *)
(* the rank alphabet (in either case) and stand in strictly descending     *)
(* rank order, the placeholder allowed to repeat, is accepted, and the     *)
(* stored cards are the input uppercased with every x/X written x.  The    *)
(* empty string is such a string.                                          *)
(***************************************************************************)
C1_ValidCardsAccepted ==
    (/\ last.op = "SuitHolding"
     /\ SuitUpper(last.suit) \in CanonicalSuits
     /\ Descending(last.args[1]))
    => /\ last.status = "ok"
       /\ holding # None
       /\ holding.cards = CaseNormalized(last.args[1])

C1_Witness ==
    /\ last.op = "SuitHolding"
    /\ last.suit = <<"s">>
    /\ last.args[1] = <<"a", "X", "x">>
    /\ holding # None
    /\ holding.cards = <<"A", "x", "x">>

(***************************************************************************)
(* C2 as stated.  A card string with a character outside the rank          *)
(* alphabet, or with a rank that is not lower than an earlier one (other   *)
(* than x after x), makes SuitHolding construction fail with the           *)
(* invalid-cards error, no object exists, and the scan stopped at the      *)
(* first violating character.                                              *)
(***************************************************************************)
C2_Original ==
    (last.op = "SuitHolding" /\ IllFormed(last.args[1]))
    => /\ holding = None
       /\ last.status = "InvalidCards"
       /\ last.at = FirstViolation(last.args[1])

(***************************************************************************)
(* C2 amended.  The same, for the constructions whose suit passed suit     *)
(* validation: the suit is validated first, and a rejected suit raises     *)
(* the invalid-suit error before the cards are looked at.  No object       *)
(* exists in either case.                                                  *)
(***************************************************************************)
C2_InvalidCardsRejected ==
    (last.op = "SuitHolding" /\ IllFormed(last.args[1]))
    => /\ holding = None
       /\ last.status \in {"InvalidSuit", "InvalidCards"}
       /\ last.status = "InvalidSuit" <=> validate_suit(last.suit).status # "ok"
       /\ last.status = "InvalidCards" => last.at = FirstViolation(last.args[1])

C2_Witness ==
    /\ last.op = "SuitHolding"
    /\ last.suit = <<"s">>
    /\ last.args[1] = <<"a", "x", "2">>
    /\ holding = None
    /\ last.status = "InvalidCards"
    /\ last.at = 3

(***************************************************************************)
(* C3.  A suit input whose uppercase form is one of S, H, D, C is stored   *)
(* as that symbol; every other suit input (the empty string and the        *)
(* strings of several characters among them) fails with the invalid-suit   *)
(* error; so every constructed SuitHolding has a suit among S, H, D, C.    *)
(***************************************************************************)
C3_SuitOneOfFour ==
    /\ last.op = "SuitHolding" =>
          IF SuitUpper(last.suit) \in CanonicalSuits
          THEN /\ last.status # "InvalidSuit"
               /\ holding # None => holding.suit = SuitUpper(last.suit)
          ELSE /\ last.status = "InvalidSuit"
               /\ holding = None
    /\ holding # None => holding.suit \in CanonicalSuits

(***************************************************************************)
(* C8.  Constructing SuitHolding(h.suit, h.cards) from a constructed h     *)
(* succeeds and yields the suit and the cards of h.                        *)
(***************************************************************************)
C8_IdempotentReconstruction ==
    last.op = "Reconstruct"
    => /\ last.status = "ok"
       /\ copy # None
       /\ copy.suit = holding.suit
       /\ copy.cards = holding.cards

C8_Witness ==
    /\ last.op = "Reconstruct"
    /\ copy # None
    /\ copy.suit = <<"H">>
    /\ copy.cards = <<"T", "x", "x">>

\* the position of a suit in S, H, D, C: the first place it occurs at
SuitPosition(suit) ==
    CHOOSE p \in 1..Len(SUITS) :
        /\ p + Len(suit) - 1 <= Len(SUITS)
        /\ SubSeq(SUITS, p, p + Len(suit) - 1) = suit
        /\ \A q \in 1..(p - 1) : SubSeq(SUITS, q, q + Len(suit) - 1) # suit

\* one card as it is displayed
Displayed(c) == IF c = "T" THEN <<"1", "0">> ELSE <<c>>

\* the displayed cards, one space between two of them
RECURSIVE SpacedCards(_)
SpacedCards(cards) ==
    IF Len(cards) = 1 THEN Displayed(cards[1])
    ELSE Displayed(cards[1]) \o <<" ">> \o SpacedCards(Tail(cards))

CardPart(cards) == IF cards = <<>> THEN <<"-", "-">> ELSE SpacedCards(cards)

IsHtmlPip(c) == c \in Range(SUIT_PIPS_HTML)

(***************************************************************************)
(* C4.  Formatting a constructed SuitHolding returns the pictograph at     *)
(* the suit's position of the plain or of the HTML table, one space, and   *)
(* the cards joined by single spaces with T written 10, or -- when there   *)
(* are no cards; the part after the pictograph is the same in both modes.  *)
(***************************************************************************)
C4_FormatLayout ==
    last.op \in {"SuitHolding.format", "SuitHolding.str"}
    => /\ last.status = "ok"
       /\ Len(last.ret) >= 3
       /\ last.ret[1] \in {SUIT_PIPS[SuitPosition(holding.suit)],
                           SUIT_PIPS_HTML[SuitPosition(holding.suit)]}
       /\ last.ret[2] = " "
       /\ SubSeq(last.ret, 3, Len(last.ret)) = CardPart(holding.cards)

C4_Witness ==
    /\ last.op = "SuitHolding.format"
    /\ holding.suit = <<"C">>
    /\ holding.cards = <<>>
    /\ last.ret = <<SUIT_PIPS_HTML[4], " ", "-", "-">>

(***************************************************************************)
(* C5.  SuitHolding formatting is in HTML mode exactly when the directive  *)
(* is the one character h or H; the empty directive and every other one,   *)
(* those of several characters such as hH and Hh among them, give plain    *)
(* mode, and none raises.                                                  *)
(***************************************************************************)
C5_HtmlOnlyForSingleH ==
    last.op = "SuitHolding.format"
    => /\ last.status = "ok"
       /\ IsHtmlPip(last.ret[1]) <=> last.spec \in {<<"h">>, <<"H">>}

(***************************************************************************)
(* C6.  Hand formatting returns the four holdings, Spades, Hearts,         *)
(* Diamonds, Clubs, each formatted with the directive it was given,        *)
(* joined by &nbsp;&nbsp; exactly when the holdings carry HTML             *)
(* pictographs and by two spaces exactly when they carry plain ones.       *)
(***************************************************************************)
C6_SeparatorAgreesWithMode ==
    last.op = "Hand.format"
    => LET parts == [i \in 1..4 |->
                        SuitHolding_format(Hand_suits(hand)[i], last.spec).ret]
           sep == IF IsHtmlPip(parts[1][1]) THEN <<"&nbsp;", "&nbsp;">>
                  ELSE <<" ", " ">>
       IN  /\ last.status = "ok"
           /\ last.ret = parts[1] \o sep \o parts[2] \o sep \o parts[3]
                         \o sep \o parts[4]

(***************************************************************************)
(* C7.  Hand(spades, hearts, diamonds, clubs) succeeds exactly when each   *)
(* of the four strings is a well-formed card string on its own; the        *)
(* first ill-formed one, in the order Spades, Hearts, Diamonds, Clubs,     *)
(* ends construction with the invalid-cards error and no Hand exists; on   *)
(* success the accessors return the case-normalized first, second,         *)
(* third and fourth argument.                                              *)
(***************************************************************************)
C7_HandConstruction ==
    last.op = "Hand"
    => LET bad == {i \in 1..4 : ~Descending(last.args[i])}
       IN  /\ hand # None <=> bad = {}
           /\ hand = None
              => /\ last.status = "InvalidCards"
                 /\ last.at \in bad
                 /\ \A i \in bad : last.at <= i
           /\ hand # None
              => /\ last.status = "ok"
                 /\ Hand_spades(hand).ret = CaseNormalized(last.args[1])
                 /\ Hand_hearts(hand).ret = CaseNormalized(last.args[2])
                 /\ Hand_diamonds(hand).ret = CaseNormalized(last.args[3])
                 /\ Hand_clubs(hand).ret = CaseNormalized(last.args[4])
                 /\ [i \in 1..4 |-> Hand_suits(hand)[i].suit]
                    = [i \in 1..4 |-> <<SUITS[i]>>]

C7_Witness ==
    /\ last.op = "Hand"
    /\ last.args = <<FullSuit, <<"t">>, <<>>, FullSuit>>
    /\ hand # None
    /\ Hand_hearts(hand).ret = <<"T">>
    /\ Hand_clubs(hand).ret = FullSuit

(***************************************************************************)
(* C9.  No operation on a constructed SuitHolding or Hand changes a        *)
(* stored suit or stored cards, so the stored cards of every holding are   *)
(* canonical and in descending order in every reachable state.             *)
(***************************************************************************)
Canonical(h) == Descending(h.cards) /\ CaseNormalized(h.cards) = h.cards

C9_Immutable ==
    /\ [][/\ holding # None => holding' = holding
          /\ copy # None => copy' = copy
          /\ hand # None => hand' = hand]_vars
    /\ [](/\ holding # None => Canonical(holding)
          /\ copy # None => Canonical(copy)
          /\ hand # None => \A i \in 1..4 : Canonical(Hand_suits(hand)[i]))

C9_Witness ==
    /\ last.op = "SuitHolding.format"
    /\ last.spec = <<"h">>
    /\ holding # None
    /\ holding.cards = <<"A", "T", "x">>
    /\ copy = holding

(***************************************************************************)
(* C10.  On an accepted SuitHolding or Hand, whatever suit and cards were  *)
(* accepted, the accessors, repr, str and format return a value for every  *)
(* directive and never raise; the pictograph lookup finds an entry.        *)
(***************************************************************************)
C10_OnlyConstructionFails ==
    /\ last.op \notin {"init", "SuitHolding", "Reconstruct", "Hand"}
       => last.status = "ok"
    /\ holding # None
       => suit_pip(holding).status = "ok" /\ suit_pip_html(holding).status = "ok"
    /\ hand # None
       => \A i \in 1..4 : /\ suit_pip(Hand_suits(hand)[i]).status = "ok"
                          /\ suit_pip_html(Hand_suits(hand)[i]).status = "ok"

C10_Witness ==
    /\ last.op = "SuitHolding.format"
    /\ last.spec = <<"H", "h">>
    /\ holding # None
    /\ holding.suit = <<"S", "H">>
    /\ last.status = "ok"

====
